---- MODULE Spec2Model ----
(***************************************************************************)
(* Calculator (src/src/calculator.cpp): four member functions over `int`,  *)
(* three returning `int` and `divide` returning `double` or throwing       *)
(* std::invalid_argument.  The class has no data members: every function   *)
(* reads only its two by-value parameters.                                 *)
(*                                                                         *)
(* `int` is modelled as a two's-complement integer of IntBits bits and     *)
(* `double` as a binary floating-point number with a MantBits-bit          *)
(* significand, rounded to nearest, ties to even.  IntBits <= MantBits, as *)
(* for the 32-bit int and the 53-bit significand of the real types, so the *)
(* conversion int -> double is exact.                                      *)
(*                                                                         *)
(* Signed overflow in `a + b`, `a - b`, `a * b` is undefined behaviour.    *)
(* The build decides what it does: `overflow` is chosen in Init among the  *)
(* outcomes builds produce, "wrap" (plain code generation, -fwrapv) and    *)
(* "trap" (-ftrapv, -fsanitize=signed-integer-overflow: the process is     *)
(* aborted).                                                               *)
(***************************************************************************)
EXTENDS Integers, Sequences, FiniteSets, TLC

IntBits == 4
MantBits == 6
NumThreads == 2

RECURSIVE Pow2(_)
Pow2(n) == IF n = 0 THEN 1 ELSE 2 * Pow2(n - 1)

Modulus == Pow2(IntBits)
MaxInt == Pow2(IntBits - 1) - 1
MinInt == -Pow2(IntBits - 1)
IntRange == MinInt..MaxInt
Threads == 1..NumThreads
Ops == {"add", "subtract", "multiply", "divide"}
OverflowModes == {"wrap", "trap"}

Abs(x) == IF x < 0 THEN -x ELSE x

VARIABLES
  overflow,   \* what this build does on signed overflow
  pc,         \* pc[t]: "idle" | "called" | "done"
  call,       \* call[t]: the operation and by-value arguments of t's call
  out,        \* out[t]: the outcome of t's last completed call
  failed,     \* history: a divide on this calculator has thrown
  chainStep,        \* workflow test: number of operations performed
  initial_value,    \* workflow test: the operands
  add_amount,
  subtract_amount,
  multiply_factor,
  after_add,        \* workflow test: the outcomes
  after_subtract,
  final_result

vars == <<overflow, pc, call, out, failed, chainStep, initial_value, add_amount,
          subtract_amount, multiply_factor, after_add, after_subtract, final_result>>
threadVars == <<pc, call, out, failed>>
chainVars == <<chainStep, initial_value, add_amount, subtract_amount, multiply_factor,
               after_add, after_subtract, final_result>>

(***************************************************************************)
(* Outcomes of a call.                                                     *)
(***************************************************************************)
NoResult == [kind |-> "none"]
IntResult(v) == [kind |-> "int", value |-> v]
\* (-1)^neg * m / 2^k, normalised: m = 0 /\ k = 0, or 2^(MantBits-1) <= m < 2^MantBits
DoubleResult(neg, m, k) == [kind |-> "double", neg |-> neg, m |-> m, k |-> k]
InvalidArgument == [kind |-> "invalid_argument", what |-> "Division by zero"]
Trap == [kind |-> "trap"]

InRange(x) == MinInt <= x /\ x <= MaxInt
Wrap(x) == ((x - MinInt) % Modulus) + MinInt

\* the value of an int expression whose mathematical value is x
IntArith(x) ==
  IF InRange(x) THEN IntResult(x)
  ELSE IF overflow = "wrap" THEN IntResult(Wrap(x))
  ELSE Trap

(***************************************************************************)
(* double arithmetic: the quotient N / D (N >= 0, D > 0) rounded to a      *)
(* MantBits-bit significand, round-to-nearest, ties-to-even.               *)
(***************************************************************************)
RECURSIVE ShiftUp(_, _, _)
ShiftUp(N, D, k) ==
  IF N \div D >= Pow2(MantBits - 1) THEN k ELSE ShiftUp(2 * N, D, k + 1)

RECURSIVE ShiftDown(_, _, _)
ShiftDown(N, D, k) ==
  IF N \div D < Pow2(MantBits) THEN k ELSE ShiftDown(N, 2 * D, k - 1)

RoundQuotient(neg, N, D) ==
  IF N = 0 THEN DoubleResult(neg, 0, 0)
  ELSE LET k  == IF N \div D >= Pow2(MantBits) THEN ShiftDown(N, D, 0)
                 ELSE ShiftUp(N, D, 0)
           n2 == IF k >= 0 THEN N * Pow2(k) ELSE N
           d2 == IF k >= 0 THEN D ELSE D * Pow2(-k)
           q  == n2 \div d2
           r  == n2 % d2
           m  == IF 2 * r > d2 \/ (2 * r = d2 /\ q % 2 = 1) THEN q + 1 ELSE q
       IN  IF m = Pow2(MantBits) THEN DoubleResult(neg, Pow2(MantBits - 1), k - 1)
           ELSE DoubleResult(neg, m, k)

\* static_cast<double>(n), and the implicit conversion of the divisor
ToDouble(n) == RoundQuotient(n < 0, Abs(n), 1)

\* x / y on doubles, y nonzero
FDiv(x, y) ==
  LET up(k) == IF k >= 0 THEN Pow2(k) ELSE 1
      dn(k) == IF k < 0 THEN Pow2(-k) ELSE 1
  IN  RoundQuotient(x.neg # y.neg,
                    x.m * up(y.k) * dn(x.k),
                    y.m * up(x.k) * dn(y.k))

\* the value 1/0 or -1/0 of a double division by zero
Infinity(neg) == [kind |-> "infinity", neg |-> neg]

(***************************************************************************)
(* Faulty variants of the calculator, used to show that each property      *)
(* below depends on the code it is about.                                  *)
(***************************************************************************)
add_doubled(first_value, second_value) == IntArith(first_value + first_value)

subtract_swapped(first_value, second_value) == IntArith(second_value - first_value)

subtract_as_add(first_value, second_value) == IntArith(first_value + second_value)

multiply_as_add(first_value, second_value) == IntArith(first_value + second_value)

divide_checks_first(first_value, second_value) ==
  IF first_value = 0 THEN InvalidArgument
  ELSE IF second_value = 0 THEN Infinity(first_value < 0)
  ELSE FDiv(ToDouble(first_value), ToDouble(second_value))

divide_rejects_nonpositive(first_value, second_value) ==
  IF second_value <= 0 THEN InvalidArgument
  ELSE FDiv(ToDouble(first_value), ToDouble(second_value))

\* C++ integer division truncates toward zero
TruncDiv(a, b) ==
  LET q == Abs(a) \div Abs(b) IN IF (a < 0) # (b < 0) THEN -q ELSE q

divide_truncating(first_value, second_value) ==
  IF second_value = 0 THEN InvalidArgument
  ELSE ToDouble(TruncDiv(first_value, second_value))

(***************************************************************************)
(* Calculator                                                              *)
(***************************************************************************)
add(first_value, second_value) == IntArith(first_value + second_value)

subtract(first_value, second_value) == IntArith(first_value - second_value)

multiply(first_value, second_value) == IntArith(first_value * second_value)

divide(first_value, second_value) ==
  IF second_value = 0 THEN InvalidArgument
  ELSE FDiv(ToDouble(first_value), ToDouble(second_value))

Calculator(op, a, b) ==
  CASE op = "add" -> add(a, b)
    [] op = "subtract" -> subtract(a, b)
    [] op = "multiply" -> multiply(a, b)
    [] op = "divide" -> divide(a, b)

(***************************************************************************)
(* Callers: each thread calls the calculator with by-value arguments and   *)
(* later receives the outcome.  A trap aborts the whole process.           *)
(***************************************************************************)
Aborted == \E t \in Threads : out[t] = Trap

Invoke(t, op, a, b) ==
  /\ ~Aborted
  /\ pc[t] \in {"idle", "done"}
  /\ pc' = [pc EXCEPT ![t] = "called"]
  /\ call' = [call EXCEPT ![t] = [op |-> op, a |-> a, b |-> b]]
  /\ out' = [out EXCEPT ![t] = NoResult]
  /\ UNCHANGED <<overflow, failed, chainVars>>

\* faulty: an error flag kept in the calculator makes every later call throw
ReturnSticky(t) ==
  /\ ~Aborted
  /\ pc[t] = "called"
  /\ LET r == IF failed THEN InvalidArgument
              ELSE Calculator(call[t].op, call[t].a, call[t].b)
     IN  /\ out' = [out EXCEPT ![t] = r]
         /\ failed' = (failed \/ r = InvalidArgument)
  /\ pc' = [pc EXCEPT ![t] = "done"]
  /\ UNCHANGED <<overflow, call, chainVars>>

\* faulty: the zero check is performed only until it has fired once
ReturnChecksOnce(t) ==
  /\ ~Aborted
  /\ pc[t] = "called"
  /\ LET c == call[t]
         r == IF failed /\ c.op = "divide" /\ c.b = 0 THEN Infinity(c.a < 0)
              ELSE Calculator(c.op, c.a, c.b)
     IN  /\ out' = [out EXCEPT ![t] = r]
         /\ failed' = (failed \/ r = InvalidArgument)
  /\ pc' = [pc EXCEPT ![t] = "done"]
  /\ UNCHANGED <<overflow, call, chainVars>>

\* faulty: the error is kept in storage shared by the threads
ReturnSharedError(t) ==
  /\ ~Aborted
  /\ pc[t] = "called"
  /\ LET r == IF \E u \in Threads \ {t} : out[u] = InvalidArgument THEN InvalidArgument
              ELSE Calculator(call[t].op, call[t].a, call[t].b)
     IN  /\ out' = [out EXCEPT ![t] = r]
         /\ failed' = (failed \/ r = InvalidArgument)
  /\ pc' = [pc EXCEPT ![t] = "done"]
  /\ UNCHANGED <<overflow, call, chainVars>>

Return(t) ==
  /\ ~Aborted
  /\ pc[t] = "called"
  /\ LET r == Calculator(call[t].op, call[t].a, call[t].b)
     IN  /\ out' = [out EXCEPT ![t] = r]
         /\ failed' = (failed \/ r = InvalidArgument)
  /\ pc' = [pc EXCEPT ![t] = "done"]
  /\ UNCHANGED <<overflow, call, chainVars>>

(***************************************************************************)
(* The workflow of the functional test: add, then subtract, then multiply, *)
(* each fed with the previous result.                                      *)
(***************************************************************************)
ChainAdd(amount) ==
  /\ chainStep = 0
  /\ add_amount' = amount
  /\ after_add' = add(initial_value, amount)
  /\ chainStep' = 1
  /\ UNCHANGED <<overflow, threadVars, initial_value, subtract_amount, multiply_factor,
                 after_subtract, final_result>>

ChainSubtract(amount) ==
  /\ chainStep = 1
  /\ after_add # Trap
  /\ subtract_amount' = amount
  /\ after_subtract' = subtract(after_add.value, amount)
  /\ chainStep' = 2
  /\ UNCHANGED <<overflow, threadVars, initial_value, add_amount, multiply_factor,
                 after_add, final_result>>

ChainMultiply(factor) ==
  /\ chainStep = 2
  /\ after_subtract # Trap
  /\ multiply_factor' = factor
  /\ final_result' = multiply(after_subtract.value, factor)
  /\ chainStep' = 3
  /\ UNCHANGED <<overflow, threadVars, initial_value, add_amount, subtract_amount,
                 after_add, after_subtract>>

(***************************************************************************)
(* Specifications                                                          *)
(***************************************************************************)
InitThreads ==
  /\ overflow \in OverflowModes
  /\ pc = [t \in Threads |-> "idle"]
  /\ call = [t \in Threads |-> [op |-> "add", a |-> 0, b |-> 0]]
  /\ out = [t \in Threads |-> NoResult]
  /\ failed = FALSE

InitWorkflow(initial) ==
  /\ chainStep = 0
  /\ initial_value = initial
  /\ add_amount = 0
  /\ subtract_amount = 0
  /\ multiply_factor = 0
  /\ after_add = NoResult
  /\ after_subtract = NoResult
  /\ final_result = NoResult

\* NumThreads threads sharing one calculator
Init == InitThreads /\ InitWorkflow(0)

Next ==
  \E t \in Threads :
    \/ \E op \in Ops, a \in {1, MaxInt}, b \in {0, 1} : Invoke(t, op, a, b)
    \/ Return(t)

Spec == Init /\ [][Next]_vars

\* one test case: a fresh calculator, one call, every pair of int arguments
NextSeq ==
  \/ pc[1] = "idle" /\ \E op \in Ops, a \in IntRange, b \in IntRange : Invoke(1, op, a, b)
  \/ Return(1)

SpecSeq == Init /\ [][NextSeq]_vars

\* one caller, call after call on the same calculator
NextRecover ==
  \/ \E op \in Ops, a \in IntRange, b \in {0, 1, 2} : Invoke(1, op, a, b)
  \/ Return(1)

SpecRecover == Init /\ [][NextRecover]_vars

\* the workflow, from every initial value and with every amount
InitChain == InitThreads /\ \E initial \in IntRange : InitWorkflow(initial)

NextChain ==
  \E v \in IntRange : ChainAdd(v) \/ ChainSubtract(v) \/ ChainMultiply(v)

SpecChain == InitChain /\ [][NextChain]_vars

(***************************************************************************)
(* Properties                                                              *)
(***************************************************************************)
Done(t, op) == pc[t] = "done" /\ call[t].op = op

\* unary minus applied by the caller to the int a call returned
Negate(r) == IF r.kind = "int" THEN IntArith(-r.value) ELSE r

\* C1: for every int a, a = 0 included, divide(a, 0) throws
\* std::invalid_argument("Division by zero") and returns no value.
C1_DivideByZeroThrows ==
  \A t \in Threads :
    Done(t, "divide") /\ call[t].b = 0 => out[t] = InvalidArgument

C1_Witness ==
  Done(1, "divide") /\ call[1].a = 0 /\ call[1].b = 0 /\ out[1] = InvalidArgument

\* C2: once a divide on the calculator has thrown, every later call on the same
\* calculator returns what it returns on a fresh calculator; add(2,2) is 4.
C2_UsableAfterError ==
  \A t \in Threads :
    failed /\ pc[t] = "done" =>
      /\ out[t] = Calculator(call[t].op, call[t].a, call[t].b)
      /\ (call[t] = [op |-> "add", a |-> 2, b |-> 2] => out[t] = IntResult(4))

C2_Witness ==
  /\ failed
  /\ pc[1] = "done"
  /\ call[1] = [op |-> "add", a |-> 2, b |-> 2]
  /\ out[1] = IntResult(4)

\* C3: a call throws only if it is divide with a zero second operand, and what
\* it throws is std::invalid_argument: add, subtract and multiply return an int
\* for every pair of ints (or, where the result overflows in a trapping build,
\* the process is aborted: no error is raised to the caller), and divide(a, b)
\* with b # 0 returns a double.
C3_OnlyDivideByZeroThrows ==
  \A t \in Threads :
    pc[t] = "done" =>
      IF call[t].op = "divide"
      THEN IF call[t].b = 0 THEN out[t] = InvalidArgument ELSE out[t].kind = "double"
      ELSE out[t].kind \in {"int", "trap"}

C3_Witness ==
  /\ Done(1, "divide")
  /\ call[1].a = MinInt
  /\ call[1].b = -1
  /\ out[1].kind = "double"

\* C4: for b # 0, divide(a, b) is the double nearest to the true quotient a/b
\* (a converted to double before the division), with the sign of a/b, and not
\* the truncated integer quotient: divide(7, 2) = 3.5.
IsNormal(r) ==
  \/ r.m = 0 /\ r.k = 0
  \/ Pow2(MantBits - 1) <= r.m /\ r.m < Pow2(MantBits)

\* |r| is within half a unit in the last place of A / B
NearestTo(r, A, B) ==
  IF r.k >= 0 THEN 2 * Abs(r.m * B - A * Pow2(r.k)) <= B
  ELSE 2 * Abs(r.m * Pow2(-r.k) * B - A) <= B * Pow2(-r.k)

C4_DivideIsTrueQuotient ==
  \A t \in Threads :
    Done(t, "divide") /\ call[t].b # 0 =>
      /\ out[t].kind = "double"
      /\ out[t].neg = ((call[t].a < 0) # (call[t].b < 0))
      /\ IsNormal(out[t])
      /\ NearestTo(out[t], Abs(call[t].a), Abs(call[t].b))

C4_Witness ==
  /\ Done(1, "divide")
  /\ call[1].a = 7
  /\ call[1].b = 2
  /\ out[1].kind = "double"
  /\ 2 * out[1].m = 7 * Pow2(out[1].k)

\* C5: where the result fits in int, add returns a + b, subtract a - b and
\* multiply a * b, and with each result fed to the next call
\* multiply(subtract(add(a, b), c), d) = (a + b - c) * d.
C5_ArithmeticAndChain ==
  /\ chainStep >= 1 /\ InRange(initial_value + add_amount) =>
       after_add = IntResult(initial_value + add_amount)
  /\ chainStep >= 2 /\ InRange(after_add.value - subtract_amount) =>
       after_subtract = IntResult(after_add.value - subtract_amount)
  /\ chainStep >= 3 /\ InRange(after_subtract.value * multiply_factor) =>
       final_result = IntResult(after_subtract.value * multiply_factor)
  /\ ( /\ chainStep = 3
       /\ InRange(initial_value + add_amount)
       /\ InRange(initial_value + add_amount - subtract_amount)
       /\ InRange((initial_value + add_amount - subtract_amount) * multiply_factor) )
     => final_result =
          IntResult((initial_value + add_amount - subtract_amount) * multiply_factor)

C5_Witness ==
  /\ chainStep = 3
  /\ initial_value = 4
  /\ add_amount = 2
  /\ subtract_amount = 3
  /\ multiply_factor = 2
  /\ after_add = IntResult(6)
  /\ after_subtract = IntResult(3)
  /\ final_result = IntResult(6)

\* C6: add(a, b) = add(b, a) for all ints, and whenever add returns a value,
\* that value minus b, computed in int, is a.
C6_AddCommutesAndInverts ==
  \A t \in Threads :
    Done(t, "add") =>
      /\ out[t] = add(call[t].b, call[t].a)
      /\ (out[t].kind = "int" => IntArith(out[t].value - call[t].b) = IntResult(call[t].a))

C6_Witness ==
  /\ Done(1, "add")
  /\ call[1].a = -2
  /\ call[1].b = 5
  /\ out[1] = IntResult(3)

\* C7 as stated: subtract(a, b) = -subtract(b, a) for all ints, the minimum
\* value and overflowing differences included.
C7_SubtractAntisymmetricAlways ==
  \A t \in Threads :
    Done(t, "subtract") => out[t] = Negate(subtract(call[t].b, call[t].a))

\* C7 as amended: subtract(a, b) = -subtract(b, a) for all ints a, b whose
\* differences a - b and b - a are both representable.
C7_SubtractAntisymmetricInRange ==
  \A t \in Threads :
    Done(t, "subtract") /\ InRange(call[t].a - call[t].b) /\ InRange(call[t].b - call[t].a) =>
      /\ out[t].kind = "int"
      /\ out[t] = Negate(subtract(call[t].b, call[t].a))

C7_Witness ==
  /\ Done(1, "subtract")
  /\ call[1].a = 0
  /\ call[1].b = MaxInt
  /\ out[1] = IntResult(MinInt + 1)

\* C8: multiply(a, b) = multiply(b, a) for all ints, and a product with a zero
\* operand is 0.
C8_MultiplyCommutesAndZero ==
  \A t \in Threads :
    Done(t, "multiply") =>
      /\ out[t] = multiply(call[t].b, call[t].a)
      /\ (call[t].a = 0 \/ call[t].b = 0 => out[t] = IntResult(0))

C8_Witness ==
  /\ Done(1, "multiply")
  /\ call[1].a = MinInt
  /\ call[1].b = 0
  /\ out[1] = IntResult(0)

\* C9: two calls of the same operation with the same operands have the same
\* outcome, whatever was called in between and by whom, the error included.
C9_Deterministic ==
  \A t, u \in Threads :
    pc[t] = "done" /\ pc[u] = "done" /\ call[t] = call[u] => out[t] = out[u]

C9_Witness ==
  \E t, u \in Threads :
    /\ t # u
    /\ Done(t, "divide") /\ Done(u, "divide")
    /\ call[t] = call[u]
    /\ call[t].b = 0
    /\ out[t] = InvalidArgument
    /\ out[u] = InvalidArgument

\* C10: under every interleaving of the threads' calls on the one calculator,
\* each completed call has the outcome it has when run alone, also while
\* another thread holds the error of a failed divide.
C10_ThreadsDoNotInterfere ==
  \A t \in Threads :
    pc[t] = "done" => out[t] = Calculator(call[t].op, call[t].a, call[t].b)

C10_Witness ==
  \E t, u \in Threads :
    /\ t # u
    /\ Done(t, "divide") /\ out[t] = InvalidArgument
    /\ Done(u, "add") /\ call[u].a = 1 /\ call[u].b = 1 /\ out[u] = IntResult(2)

====
